---- MODULE Spec2Model ----
(***************************************************************************)
(* Model of scripts/fetch_dye_names.py: the sequential batch client that   *)
(* fetches the localized names of every dye (DyeNameFetcher.fetch_name,    *)
(* fetch_all_languages), the source loader (load_dye_data), the CSV writer *)
(* (generate_csv) and the orchestration and exit status (main).            *)
(*                                                                         *)
(* The recursion of fetch_name is a tail call in every branch, so the      *)
(* stack of frames is represented by the current retry_count alone.        *)
(***************************************************************************)
EXTENDS Integers, Sequences, FiniteSets, TLC

\* ---------------------------------------------------------------- bounds
\* longest input array read from colors_xiv.json
MaxItems == 2
\* largest itemID occurring in the input
MaxId == 2
\* number of fetches in which the endpoint answers anything else than a
\* 2xx response carrying the name (within such a fetch every attempt may fail)
MaxFaultyFetches == 2

\* ------------------------------------------------------------- constants
\* variant: the configured codes in another order
LANGUAGES_Reordered == <<"en", "de", "fr", "ja">>

LANGUAGES == <<"en", "ja", "de", "fr">>
MAX_RETRIES == 3

\* Python's None, as stored in the names dict and returned by fetch_name
None == "<None>"

\* ------------------------------------------------------------- endpoint
\* The name the remote sheet holds for an item in a language.
SheetName(item_id, language) ==
    IF item_id = 1
    THEN CASE language = "en" -> "Snow White"
           [] language = "ja" -> "Sunou Howaito"
           [] language = "de" -> "Schneeweiss"
           [] OTHER           -> "Blanc neige"
    ELSE CASE language = "en" -> "Ash Grey"
           [] language = "ja" -> "Asshu Gurei"
           [] language = "de" -> "Aschgrau"
           [] OTHER           -> "Gris cendre"

\* JSON bodies of a response: {"fields": {"Name": n}}, {"fields": {"Name": ""}},
\* {"fields": {}} and {} (no "fields" key).
BodyKinds == {"name", "empty", "noname", "nofields"}

\* What session.get can produce: a response with a status code and a body,
\* a requests.exceptions.Timeout, or another RequestException.
Responses ==
    [kind : {"http"}, status : {200}, body : BodyKinds]
    \cup [kind : {"http"}, status : {429, 404, 403, 503}, body : {"nofields"}]
    \cup [kind : {"timeout", "connection"}, status : {0}, body : {"nofields"}]

\* The response every well-behaved exchange gives.
IsGood(r) == r.kind = "http" /\ r.status = 200 /\ r.body = "name"

\* -------------------------------------------------------------- input file
\* An element of the JSON array: has: whether the "itemID" key is present.
Elements == [has : {TRUE}, itemID : 1..MaxId] \cup [has : {FALSE}, itemID : {0}]

RECURSIVE SeqsUpTo(_, _)
SeqsUpTo(S, n) ==
    IF n = 0 THEN {<<>>}
    ELSE LET shorter == SeqsUpTo(S, n - 1)
         IN  shorter \cup {Append(s, e) : s \in {t \in shorter : Len(t) = n - 1}, e \in S}

SourceStates == {"ok", "missing", "unparsable", "not_array"}

VARIABLES
    src,                 \* state of COLORS_JSON_PATH
    input,               \* the parsed array when src = "ok"
    item_ids,            \* main: item_ids
    dye_data,            \* main: dye_data
    item_index,          \* main: position of the for loop in item_ids
    names,               \* fetch_all_languages: names
    lang_index,          \* fetch_all_languages: position in LANGUAGES
    retry_count,         \* fetch_name: retry_count of the innermost frame
    wait_time,           \* fetch_name: wait_time
    result,              \* value returned by fetch_name
    total_requests,      \* fetcher.total_requests
    successful_requests, \* fetcher.successful_requests
    failed_requests,     \* fetcher.failed_requests
    csv,                 \* rows of OUTPUT_CSV_PATH, header first
    csv_written,         \* whether the file was written
    exit_code,           \* process exit status, -1 while running
    pc,                  \* position of the single thread
    trace,               \* history: sleeps and requests of the current fetch
    start,               \* history: the counters when the current fetch began
    attempts,            \* history: number of calls of session.get so far
    fetched,             \* history: the calls fetch_name(item_id, lang) made by
                         \* fetch_all_languages, with the position of the item
    failed_fetch,        \* history: for each entry of failed_requests, the index
                         \* in fetched of the call that appended it
    fault_budget,        \* number of fetches the endpoint may answer with faults
    faulty,              \* number of fetches that met a fault so far
    in_fault             \* whether the current fetch met a fault

vars == <<src, input, item_ids, dye_data, item_index, names, lang_index,
          retry_count, wait_time, result, total_requests, successful_requests,
          failed_requests, csv, csv_written, exit_code, pc, trace, start,
          attempts, fetched, failed_fetch, fault_budget, faulty, in_fault>>

\* variables of main outside the fetcher
mainVars == <<src, input, item_ids, dye_data, item_index, csv, csv_written, exit_code>>
counters == <<total_requests, successful_requests, failed_requests>>
budget == <<attempts, fetched, failed_fetch, fault_budget, faulty, in_fault>>

\* history events
Pace == [ev |-> "pace", status |-> 0, body |-> "", t |-> 0]
Backoff(t) == [ev |-> "backoff", status |-> 0, body |-> "", t |-> t]
Got(r) == [ev |-> r.kind, status |-> r.status, body |-> r.body, t |-> 0]

Snapshot == [total |-> total_requests, ok |-> successful_requests,
             failed |-> Len(failed_requests)]

\* The state before load_dye_data runs, for the arrays the file may hold and
\* the number of fetches the endpoint may disturb.
InitWith(arrays, faults) ==
    /\ src \in SourceStates
    /\ input \in (IF src = "ok" THEN arrays ELSE {<<>>})
    /\ fault_budget = faults
    /\ item_ids = <<>>
    /\ dye_data = <<>>
    /\ item_index = 0
    /\ names = <<>>
    /\ lang_index = 0
    /\ retry_count = 0
    /\ wait_time = 0
    /\ result = None
    /\ total_requests = 0
    /\ successful_requests = 0
    /\ failed_requests = <<>>
    /\ csv = <<>>
    /\ csv_written = FALSE
    /\ exit_code = -1
    /\ pc = "load"
    /\ trace = <<>>
    /\ start = [total |-> 0, ok |-> 0, failed |-> 0]
    /\ attempts = 0
    /\ fetched = <<>>
    /\ failed_fetch = <<>>
    /\ faulty = 0
    /\ in_fault = FALSE

Init == InitWith(SeqsUpTo(Elements, MaxItems), MaxFaultyFetches)

\* A source of exactly one element, every fetch of which may meet faults.
SingleItemInit == InitWith({<<e>> : e \in Elements}, Len(LANGUAGES))

\* ------------------------------------------------------------ load_dye_data
\* variant: each id is put in front of the list (item_ids.insert(0, ...))
RECURSIVE ExtractItemIdsReversed(_)
ExtractItemIdsReversed(dyes) ==
    IF dyes = <<>> THEN <<>>
    ELSE LET dye == Head(dyes)
         IN  IF ~dye.has
             THEN ExtractItemIdsReversed(Tail(dyes))
             ELSE ExtractItemIdsReversed(Tail(dyes)) \o <<dye.itemID>>

\* The loop over the parsed array: entries without "itemID" are skipped.
RECURSIVE ExtractItemIds(_)
ExtractItemIds(dyes) ==
    IF dyes = <<>> THEN <<>>
    ELSE LET dye == Head(dyes)
         IN  IF ~dye.has
             THEN ExtractItemIds(Tail(dyes))
             ELSE <<dye.itemID>> \o ExtractItemIds(Tail(dyes))

\* variant: the isinstance(dyes, list) test is missing
IsFatalSourceNoRootTest(state) == state \in {"missing", "unparsable"}

\* The source states in which load_dye_data calls sys.exit(1).
IsFatalSource(state) == state \in {"missing", "unparsable", "not_array"}

\* File missing, unparsable JSON or a root that is no array: sys.exit(1).
LoadFatal ==
    /\ pc = "load"
    /\ IsFatalSource(src)
    /\ exit_code' = 1
    /\ pc' = "exit"
    /\ UNCHANGED <<src, input, item_ids, dye_data, item_index, names, lang_index,
                   retry_count, wait_time, result, counters, csv, csv_written,
                   trace, start, budget>>

LoadDyeData ==
    /\ pc = "load"
    /\ ~IsFatalSource(src)
    /\ item_ids' = ExtractItemIds(input)
    /\ pc' = "main"
    /\ UNCHANGED <<src, input, dye_data, item_index, names, lang_index,
                   retry_count, wait_time, result, counters, csv, csv_written,
                   exit_code, trace, start, budget>>

\* --------------------------------------------------------------- main loop
\* for index, item_id in enumerate(item_ids, start=1): enter
\* fetch_all_languages(item_id) with names = {}.
MainNextItem ==
    /\ pc = "main"
    /\ item_index < Len(item_ids)
    /\ item_index' = item_index + 1
    /\ names' = <<>>
    /\ lang_index' = 0
    /\ pc' = "langs"
    /\ UNCHANGED <<src, input, item_ids, dye_data, retry_count, wait_time, result,
                   counters, csv, csv_written, exit_code, trace, start, budget>>

\* The loop is exhausted: go on to generate_csv(dye_data).
MainLoopDone ==
    /\ pc = "main"
    /\ item_index = Len(item_ids)
    /\ pc' = "csv"
    /\ UNCHANGED <<src, input, item_ids, dye_data, item_index, names, lang_index,
                   retry_count, wait_time, result, counters, csv, csv_written,
                   exit_code, trace, start, budget>>

\* ------------------------------------------------------ fetch_all_languages
\* for lang in LANGUAGES: call self.fetch_name(item_id, lang), retry_count = 0.
CallFetchName ==
    /\ pc = "langs"
    /\ lang_index < Len(LANGUAGES)
    /\ lang_index' = lang_index + 1
    /\ retry_count' = 0
    /\ wait_time' = 0
    /\ result' = None
    /\ trace' = <<>>
    /\ start' = Snapshot
    /\ fetched' = Append(fetched, <<item_index, item_ids[item_index],
                                    LANGUAGES[lang_index + 1]>>)
    /\ in_fault' = FALSE
    /\ pc' = "pace"
    /\ UNCHANGED <<mainVars, names, counters, attempts, failed_fetch, fault_budget,
                   faulty>>

\* return names; main appends {'itemID': item_id, 'names': names} to dye_data.
AppendDyeData ==
    /\ pc = "langs"
    /\ lang_index = Len(LANGUAGES)
    /\ dye_data' = Append(dye_data, [itemID |-> item_ids[item_index], names |-> names])
    /\ pc' = "main"
    /\ UNCHANGED <<src, input, item_ids, item_index, names, lang_index, retry_count,
                   wait_time, result, counters, csv, csv_written, exit_code,
                   trace, start, budget>>

\* names[lang] = <value returned by fetch_name>
StoreName ==
    /\ pc = "ret"
    /\ names' = [k \in DOMAIN names \cup {LANGUAGES[lang_index]} |->
                    IF k = LANGUAGES[lang_index] THEN result ELSE names[k]]
    /\ trace' = <<>>
    /\ pc' = "langs"
    /\ UNCHANGED <<mainVars, lang_index, retry_count, wait_time, result, counters,
                   start, budget>>

\* --------------------------------------------------------------- fetch_name
\* What one attempt leads to: a backoff sleep followed by the recursive call,
\* the recursive call at once, a recorded failure (return None), or the name.
SleepAndRetry(w) == [do |-> "backoff", wait |-> w, reason |-> "", name |-> None]
RetryNow == [do |-> "retry", wait |-> 0, reason |-> "", name |-> None]
Fail(reason) == [do |-> "fail", wait |-> 0, reason |-> reason, name |-> None]
ReturnName(n) == [do |-> "return", wait |-> 0, reason |-> "", name |-> n]

\* variant: the exponent is off by one (2 ** (retry_count + 1))
WaitTimeOffByOne(rc) == 2 ^ (rc + 1)

\* wait_time = 2 ** retry_count
WaitTime(rc) == 2 ^ rc

\* variant: a fixed wait of one second before every retry
OnRateLimitedFixedWait(rc) ==
    IF rc < MAX_RETRIES THEN SleepAndRetry(1) ELSE Fail("Rate limit")

\* if response.status_code == 429
OnRateLimited(rc) ==
    IF rc < MAX_RETRIES THEN SleepAndRetry(WaitTime(rc)) ELSE Fail("Rate limit")

\* variant: 404 handled like a server error, with retries
OnNotFoundRetried(rc) ==
    IF rc < MAX_RETRIES THEN SleepAndRetry(WaitTime(rc)) ELSE Fail("Not found")

\* if response.status_code == 404
OnNotFound(rc) == Fail("Not found")

\* variant: retry_count <= MAX_RETRIES, one attempt too many
OnServerErrorOneMore(status, rc) ==
    IF rc <= MAX_RETRIES
    THEN SleepAndRetry(WaitTime(rc))
    ELSE Fail("Server error " \o ToString(status))

\* if response.status_code >= 500
OnServerError(status, rc) ==
    IF rc < MAX_RETRIES
    THEN SleepAndRetry(WaitTime(rc))
    ELSE Fail("Server error " \o ToString(status))

\* variant: the call of raise_for_status is missing
RaisesForStatusNever(status) == FALSE

\* response.raise_for_status(): HTTPError for a 4xx or 5xx status
RaisesForStatus(status) == status >= 400 /\ status < 600

\* str(e) of the HTTPError raised by raise_for_status
HttpErrorText(status) ==
    ToString(status) \o (IF status < 500 THEN " Client Error" ELSE " Server Error")

\* str(e) of a ConnectionError
ConnectionErrorText == "Connection aborted"

\* data.get("fields", {}).get("Name")
ExtractName(body, item_id, language) ==
    CASE body = "name"  -> SheetName(item_id, language)
      [] body = "empty" -> ""
      [] OTHER          -> None

\* variant: the test is "name is not None"
OnParsedNotNone(name) ==
    IF name # None THEN ReturnName(name) ELSE Fail("Missing Name field")

\* variant: the name is returned without the truth test
OnParsedUnchecked(name) == ReturnName(name)

\* if name: ... else: ...
OnParsed(name) ==
    IF name # None /\ name # "" THEN ReturnName(name) ELSE Fail("Missing Name field")

\* variant: retry_count <= MAX_RETRIES in the timeout handler
OnTimeoutOneMore(rc) ==
    IF rc <= MAX_RETRIES THEN RetryNow ELSE Fail("Timeout")

\* variant: a timeout backs off like a 429 before the retry
OnTimeoutBackoff(rc) ==
    IF rc < MAX_RETRIES THEN SleepAndRetry(WaitTime(rc)) ELSE Fail("Timeout")

\* except requests.exceptions.Timeout
OnTimeout(rc) ==
    IF rc < MAX_RETRIES THEN RetryNow ELSE Fail("Timeout")

\* variant: every transport error is retried like a timeout
OnRequestExceptionRetried(text) == RetryNow

\* except requests.exceptions.RequestException as e
OnRequestException(text) == Fail(text)

\* The body of the try statement and its handlers, for the response r.
FetchOutcome(r, rc, item_id, language) ==
    CASE r.kind = "timeout"    -> OnTimeout(rc)
      [] r.kind = "connection" -> OnRequestException(ConnectionErrorText)
      [] OTHER ->
           IF r.status = 429 THEN OnRateLimited(rc)
           ELSE IF r.status = 404 THEN OnNotFound(rc)
           ELSE IF r.status >= 500 THEN OnServerError(r.status, rc)
           ELSE IF RaisesForStatus(r.status)
                THEN OnRequestException(HttpErrorText(r.status))
                ELSE OnParsed(ExtractName(r.body, item_id, language))

\* variant: the increment is missing
CountRequestMissing(n) == n

\* self.total_requests += 1
CountRequest(n) == n + 1

\* variant: a retry loops back to session.get, past the pacing sleep
RetryEntryUnpaced == "send"

\* Where a recursive call of fetch_name starts: at time.sleep(REQUEST_DELAY).
RetryEntry == "pace"

\* variant: the entry is put in front (failed_requests.insert(0, ...))
RecordFailureInFront(failed, entry) == <<entry>> \o failed

\* self.failed_requests.append((item_id, language, reason))
RecordFailure(failed, entry) == Append(failed, entry)

\* variant: a recorded failure ends the process
AfterFailureFatal == "exit"

\* Where a recorded failure leads: return None, back in fetch_all_languages.
AfterFailure == "ret"

CurrentItem == item_ids[item_index]
CurrentLang == LANGUAGES[lang_index]

\* time.sleep(REQUEST_DELAY)
PaceSleep ==
    /\ pc = "pace"
    /\ trace' = Append(trace, Pace)
    /\ pc' = "send"
    /\ UNCHANGED <<mainVars, names, lang_index, retry_count, wait_time, result,
                   counters, start, budget>>

\* self.total_requests += 1; session.get(...); the handling of its outcome up
\* to the next sleep or the return.
Attempt(r) ==
    /\ pc = "send"
    /\ IsGood(r) \/ in_fault \/ faulty < fault_budget
    /\ in_fault' = (in_fault \/ ~IsGood(r))
    /\ faulty' = IF ~IsGood(r) /\ ~in_fault THEN faulty + 1 ELSE faulty
    /\ attempts' = attempts + 1
    /\ total_requests' = CountRequest(total_requests)
    /\ trace' = Append(trace, Got(r))
    /\ LET o == FetchOutcome(r, retry_count, CurrentItem, CurrentLang)
       IN  CASE o.do = "backoff" ->
                  /\ wait_time' = o.wait
                  /\ pc' = "backoff"
                  /\ UNCHANGED <<retry_count, result, successful_requests, failed_requests>>
             [] o.do = "retry" ->
                  /\ retry_count' = retry_count + 1
                  /\ pc' = RetryEntry
                  /\ UNCHANGED <<wait_time, result, successful_requests, failed_requests>>
             [] o.do = "fail" ->
                  /\ failed_requests' =
                         RecordFailure(failed_requests,
                                       <<CurrentItem, CurrentLang, o.reason>>)
                  /\ result' = None
                  /\ pc' = AfterFailure
                  /\ UNCHANGED <<retry_count, wait_time, successful_requests>>
             [] OTHER ->
                  /\ successful_requests' = successful_requests + 1
                  /\ result' = o.name
                  /\ pc' = "ret"
                  /\ UNCHANGED <<retry_count, wait_time, failed_requests>>
    /\ failed_fetch' = IF Len(failed_requests') # Len(failed_requests)
                       THEN Append(failed_fetch, Len(fetched))
                       ELSE failed_fetch
    /\ UNCHANGED <<mainVars, names, lang_index, start, fetched, fault_budget>>

\* time.sleep(wait_time); return self.fetch_name(item_id, language, retry_count + 1)
BackoffSleep ==
    /\ pc = "backoff"
    /\ trace' = Append(trace, Backoff(wait_time))
    /\ retry_count' = retry_count + 1
    /\ pc' = RetryEntry
    /\ UNCHANGED <<mainVars, names, lang_index, wait_time, result, counters,
                   start, budget>>

\* ------------------------------------------------------------- generate_csv
Header == <<"itemID", "English Name", "Japanese Name", "German Name", "French Name">>

\* dict.get(key, default)
DictGet(d, key, default) == IF key \in DOMAIN d THEN d[key] ELSE default

\* variant: None rendered by str()
CsvFieldStr(v) == v

\* csv.writer renders None as the empty string and other values by str()
CsvField(v) == IF v = None THEN "" ELSE v

\* the row written for one entry of dye_data
CsvRow(dye) ==
    <<ToString(dye.itemID),
      CsvField(DictGet(dye.names, "en", "")),
      CsvField(DictGet(dye.names, "ja", "")),
      CsvField(DictGet(dye.names, "de", "")),
      CsvField(DictGet(dye.names, "fr", ""))>>

\* The line csv.writer writes for a row: the fields joined by the delimiter
\* (no field of the model holds a delimiter, a quote or a line break, so
\* QUOTE_MINIMAL quotes nothing).
RECURSIVE CsvLine(_)
CsvLine(row) ==
    IF Len(row) = 0 THEN ""
    ELSE IF Len(row) = 1 THEN row[1]
    ELSE row[1] \o "," \o CsvLine(Tail(row))

CsvRows(data) == <<Header>> \o [k \in 1..Len(data) |-> CsvRow(data[k])]

GenerateCsv ==
    /\ pc = "csv"
    /\ csv' = CsvRows(dye_data)
    /\ csv_written' = TRUE
    /\ pc' = "summary"
    /\ UNCHANGED <<src, input, item_ids, dye_data, item_index, names, lang_index,
                   retry_count, wait_time, result, counters, exit_code, trace,
                   start, budget>>

\* OUTPUT_DIR.mkdir raises outside the try statement: the uncaught exception
\* ends the process with status 1.
GenerateCsvMkdirError ==
    /\ pc = "csv"
    /\ exit_code' = 1
    /\ pc' = "exit"
    /\ UNCHANGED <<src, input, item_ids, dye_data, item_index, names, lang_index,
                   retry_count, wait_time, result, counters, csv, csv_written,
                   trace, start, budget>>

\* except Exception as e: print(...); sys.exit(1)
GenerateCsvError ==
    /\ pc = "csv"
    /\ exit_code' = 1
    /\ pc' = "exit"
    /\ UNCHANGED <<src, input, item_ids, dye_data, item_index, names, lang_index,
                   retry_count, wait_time, result, counters, csv, csv_written,
                   trace, start, budget>>

\* --------------------------------------------------------- summary and exit
\* variant: the failure list is not consulted
ExitStatusAlwaysZero(failed) == 0

\* sys.exit(0 if len(fetcher.failed_requests) == 0 else 1)
ExitStatus(failed) == IF Len(failed) = 0 THEN 0 ELSE 1

Summary ==
    /\ pc = "summary"
    /\ exit_code' = ExitStatus(failed_requests)
    /\ pc' = "exit"
    /\ UNCHANGED <<src, input, item_ids, dye_data, item_index, names, lang_index,
                   retry_count, wait_time, result, counters, csv, csv_written,
                   trace, start, budget>>

Next ==
    \/ LoadFatal
    \/ LoadDyeData
    \/ MainNextItem
    \/ MainLoopDone
    \/ CallFetchName
    \/ AppendDyeData
    \/ StoreName
    \/ PaceSleep
    \/ \E r \in Responses : Attempt(r)
    \/ BackoffSleep
    \/ GenerateCsv
    \/ GenerateCsvMkdirError
    \/ GenerateCsvError
    \/ Summary

Spec == Init /\ [][Next]_vars

\* The single thread always takes its next step: every sleep ends and every
\* session.get returns or raises within REQUEST_TIMEOUT.
FairSpec == Spec /\ WF_vars(Next)

\* The batch over a source of one element.
SingleItemSpec == SingleItemInit /\ [][Next]_vars

TypeOK ==
    /\ pc \in {"load", "main", "langs", "pace", "send", "backoff", "ret", "csv",
               "summary", "exit"}
    /\ retry_count \in 0..MAX_RETRIES
    /\ exit_code \in {-1, 0, 1}

\* ------------------------------------------------------- reading the trace
IsAnswer(e) == e.ev \notin {"pace", "backoff"}
Answers(tr) == SelectSeq(tr, IsAnswer)

Answer429 == [ev |-> "http", status |-> 429, body |-> "nofields", t |-> 0]
Answer404 == [ev |-> "http", status |-> 404, body |-> "nofields", t |-> 0]
Answer503 == [ev |-> "http", status |-> 503, body |-> "nofields", t |-> 0]
AnswerName == [ev |-> "http", status |-> 200, body |-> "name", t |-> 0]
AnswerTimeout == [ev |-> "timeout", status |-> 0, body |-> "nofields", t |-> 0]
AnswerConnection == [ev |-> "connection", status |-> 0, body |-> "nofields", t |-> 0]

\* fetch_name has returned to fetch_all_languages
Returned == pc = "ret"
\* a fetch is in progress or has just returned
InFetch == pc \in {"pace", "send", "backoff", "ret"}

\* the current fetch appended exactly the entry (item, language, reason)
RecordedOnly(reason) ==
    /\ Len(failed_requests) = start.failed + 1
    /\ failed_requests[Len(failed_requests)] = <<CurrentItem, CurrentLang, reason>>
    /\ successful_requests = start.ok
    /\ result = None

\* ------------------------------------------------------------------ claims

\* C1: when the endpoint answers one fetch with 429, 429 and then a 2xx
\* response carrying the name, the fetch makes exactly three requests, sleeps
\* a backoff of 1 after the first 429 and of 2 after the second, each request
\* is preceded by the pacing sleep, the name is returned, successful_requests
\* grows by one and failed_requests is left alone.
C1_TwoRateLimitsThenName ==
    (Returned /\ Answers(trace) = <<Answer429, Answer429, AnswerName>>) =>
        /\ trace = <<Pace, Answer429, Backoff(1), Pace, Answer429, Backoff(2),
                     Pace, AnswerName>>
        /\ total_requests = start.total + 3
        /\ result = SheetName(CurrentItem, CurrentLang)
        /\ successful_requests = start.ok + 1
        /\ Len(failed_requests) = start.failed

C1_Witness ==
    /\ Returned
    /\ Answers(trace) = <<Answer429, Answer429, AnswerName>>
    /\ result = "Snow White"

\* every request of the current fetch was counted
CountedHere == total_requests = start.total + Len(Answers(trace))

\* C2: a request answered with 404 ends the fetch at once: it is the last
\* event of the fetch (no further request, no backoff sleep after it), exactly
\* one 'Not found' entry is appended and None is returned; a fetch whose first
\* answer is 404 has made exactly one request.
C2_NotFoundEndsFetch ==
    \A k \in 1..Len(trace) :
        (trace[k].ev = "http" /\ trace[k].status = 404) =>
            /\ k = Len(trace)
            /\ Returned
            /\ RecordedOnly("Not found")
            /\ CountedHere
            /\ (k = 2 => total_requests = start.total + 1)

C2_Witness == Returned /\ trace = <<Pace, Answer404>> /\ Len(failed_requests) = 1

IsServerError(e) == e.ev = "http" /\ e.status >= 500
AllAnswers(tr, P(_)) ==
    LET a == Answers(tr) IN a # <<>> /\ \A k \in 1..Len(a) : P(a[k])

\* C3: while every attempt of a fetch is answered with a 5xx status, the
\* fetch goes on for MAX_RETRIES retries with the backoff waits 1, 2, 4; it
\* returns exactly after the attempt number MAX_RETRIES + 1, with no sleep
\* after that attempt, returning None, with one 'Server error <status>' entry
\* appended and successful_requests unchanged.
C3_ServerErrorsExhaustRetries ==
    AllAnswers(trace, IsServerError) =>
        /\ Len(Answers(trace)) <= MAX_RETRIES + 1
        /\ Returned <=> Len(Answers(trace)) = MAX_RETRIES + 1
        /\ Returned =>
              /\ trace = <<Pace, Answer503, Backoff(1), Pace, Answer503, Backoff(2),
                           Pace, Answer503, Backoff(4), Pace, Answer503>>
              /\ RecordedOnly("Server error " \o ToString(trace[Len(trace)].status))
              /\ RecordedOnly("Server error 503")
        /\ ~Returned =>
              /\ Len(failed_requests) = start.failed
              /\ successful_requests = start.ok

C3_Witness ==
    /\ Returned
    /\ Answers(trace) = <<Answer503, Answer503, Answer503, Answer503>>

IsTimeout(e) == e.ev = "timeout"

\* C4: a timeout is followed by the pacing sleep of the retry and never by a
\* backoff sleep; while every attempt times out the fetch goes on for
\* MAX_RETRIES retries, and after the attempt number MAX_RETRIES + 1 it
\* appends one 'Timeout' entry and returns None.
C4_TimeoutsRetryWithoutBackoff ==
    /\ \A k \in 1..Len(trace) :
          (IsTimeout(trace[k]) /\ k < Len(trace)) => trace[k + 1] = Pace
    /\ AllAnswers(trace, IsTimeout) =>
          /\ Len(Answers(trace)) <= MAX_RETRIES + 1
          /\ Returned <=> Len(Answers(trace)) = MAX_RETRIES + 1
          /\ Returned =>
                /\ trace = <<Pace, AnswerTimeout, Pace, AnswerTimeout,
                             Pace, AnswerTimeout, Pace, AnswerTimeout>>
                /\ RecordedOnly("Timeout")
          /\ ~Returned => Len(failed_requests) = start.failed

C4_Witness ==
    /\ Returned
    /\ Answers(trace) = <<AnswerTimeout, AnswerTimeout, AnswerTimeout, AnswerTimeout>>

\* C5: a transport error other than a timeout ends the fetch at once: it is
\* the last event of the fetch, exactly one entry carrying the text of the
\* error is appended and None is returned.
C5_TransportErrorNotRetried ==
    \A k \in 1..Len(trace) :
        trace[k].ev = "connection" =>
            /\ k = Len(trace)
            /\ Returned
            /\ RecordedOnly(ConnectionErrorText)
            /\ CountedHere

C5_Witness ==
    /\ Returned
    /\ Answers(trace) = <<AnswerTimeout, AnswerConnection>>

\* C6: a 2xx response whose body holds no Name under "fields" ends the fetch
\* as a failure: one 'Missing Name field' entry is appended,
\* successful_requests is unchanged, nothing is retried and None is returned.
C6_MissingNameIsFailure ==
    \A k \in 1..Len(trace) :
        (trace[k].ev = "http" /\ trace[k].status = 200
            /\ trace[k].body \in {"noname", "nofields"}) =>
            /\ k = Len(trace)
            /\ Returned
            /\ RecordedOnly("Missing Name field")

C6_Witness ==
    /\ Returned
    /\ trace[Len(trace)].ev = "http"
    /\ trace[Len(trace)].status = 200
    /\ trace[Len(trace)].body = "noname"

\* C7: total_requests always equals the number of calls of session.get made
\* so far, retries and attempts ending in a timeout or a transport error
\* included; successful_requests changes only by one, in the step in which
\* fetch_name returns a name; and successful_requests + len(failed_requests)
\* never exceeds total_requests.
C7_CountersTrackAttempts ==
    /\ [](/\ total_requests = attempts
          /\ successful_requests + Len(failed_requests) <= total_requests)
    /\ [][successful_requests' # successful_requests =>
             /\ successful_requests' = successful_requests + 1
             /\ pc' = "ret"
             /\ result' \notin {None, ""}]_vars

C7_Witness ==
    /\ Returned
    /\ Answers(trace) = <<Answer503, AnswerTimeout, AnswerConnection>>
    /\ total_requests = attempts
    /\ successful_requests >= 1
    /\ total_requests > successful_requests + Len(failed_requests)

\* C8: every request is immediately preceded by the pacing sleep, also the
\* request of a retry after a 429, a 5xx or a timeout, and a backoff sleep is
\* followed by the pacing sleep before the next request.
C8_EveryRequestPaced ==
    /\ \A k \in 1..Len(trace) :
          /\ IsAnswer(trace[k]) => (k > 1 /\ trace[k - 1] = Pace)
          /\ (trace[k].ev = "backoff" /\ k < Len(trace)) => trace[k + 1] = Pace
    /\ pc = "send" => (trace # <<>> /\ trace[Len(trace)] = Pace)

C8_Witness ==
    /\ pc = "send"
    /\ trace = <<Pace, Answer429, Backoff(1), Pace, AnswerTimeout, Pace,
                 Answer503, Backoff(4), Pace>>

\* the elements of the input that have an "itemID" field, in input order
HasItemId(e) == e.has
WithItemId == SelectSeq(input, HasItemId)
LanguageSet == {LANGUAGES[k] : k \in 1..Len(LANGUAGES)}

\* generate_csv has written the file: the batch is complete
BatchDone == csv_written /\ pc \in {"summary", "exit"}

\* one record and one row per element with an itemID, in input order
RecordsFollowInput ==
    /\ Len(dye_data) = Len(WithItemId)
    /\ \A k \in 1..Len(dye_data) :
          /\ dye_data[k].itemID = WithItemId[k].itemID
          /\ DOMAIN dye_data[k].names = LanguageSet
          /\ \A l \in LanguageSet :
                dye_data[k].names[l] \in {None, SheetName(dye_data[k].itemID, l)}
    /\ Len(csv) = 1 + Len(WithItemId)
    /\ csv[1] = Header
    /\ \A k \in 1..Len(WithItemId) : csv[k + 1][1] = ToString(WithItemId[k].itemID)
    /\ total_requests >= Len(LANGUAGES) * Len(WithItemId)
    /\ total_requests <= (MAX_RETRIES + 1) * Len(LANGUAGES) * Len(WithItemId)

\* C9 (as amended): when the batch completes, every input element that has
\* an itemID has produced exactly one NameRecord, holding an entry (a name or
\* None) for each of en, ja, de, fr, and exactly one CSV row, records and rows
\* being in the relative order of the input whatever the fetches produced;
\* elements without itemID give no record, no row and no request.
C9_OneRecordPerElement == BatchDone => RecordsFollowInput

C9_Witness ==
    /\ pc = "exit"
    /\ BatchDone
    /\ input = <<[has |-> TRUE, itemID |-> 2], [has |-> TRUE, itemID |-> 1]>>
    /\ Len(failed_requests) = 2
    /\ successful_requests = 6

\* C9 as stated: in addition, every ItemID occurring in the source has
\* exactly one NameRecord.
C9_OneRecordPerItemId ==
    BatchDone =>
        /\ RecordsFollowInput
        /\ \A j \in 1..Len(WithItemId) :
              Cardinality({k \in 1..Len(dye_data) :
                              dye_data[k].itemID = WithItemId[j].itemID}) = 1

\* C10: when main reaches its last statement, the exit code is 1 if
\* failed_requests is non-empty and 0 otherwise; retries that ended with the
\* name do not make it 1.
C10_ExitCodeReflectsFailures ==
    (pc = "exit" /\ csv_written) =>
        /\ failed_requests # <<>> => exit_code = 1
        /\ failed_requests = <<>> => exit_code = 0

C10_Witness ==
    /\ pc = "exit"
    /\ csv_written
    /\ exit_code = 0
    /\ successful_requests = 2 * Len(LANGUAGES)
    /\ total_requests > successful_requests

\* every language of every loaded item has been fetched
AllFetched ==
    /\ Len(dye_data) = Len(item_ids)
    /\ \A k \in 1..Len(dye_data) : DOMAIN dye_data[k].names = LanguageSet

\* the written rows hold what the fetches returned: the name, or the empty
\* string where fetch_name returned None
RowsHoldResults ==
    /\ Len(csv) = 1 + Len(dye_data)
    /\ \A k \in 1..Len(dye_data) : \A j \in 1..Len(LANGUAGES) :
          csv[k + 1][j + 1] =
              (IF dye_data[k].names[LANGUAGES[j]] = None
               THEN "" ELSE dye_data[k].names[LANGUAGES[j]])

\* the loop of main is running
InBatch == pc \in {"main", "langs", "pace", "send", "backoff", "ret"}

\* C11: a failed fetch is not fatal: the process exits only from the loader,
\* from the CSV writer or at the end of main, never from within a fetch; once
\* a failure is recorded the batch still reaches generate_csv with every
\* language of every item fetched; and a run that ends after writing the CSV
\* with a recorded failure has written the partial results and exits with 1.
C11_RequestErrorsNotFatal ==
    /\ [][pc' = "exit" => pc \in {"load", "csv", "summary"}]_vars
    /\ [](pc = "csv" => AllFetched)
    /\ []((pc = "exit" /\ csv_written /\ failed_requests # <<>>) =>
              (exit_code = 1 /\ AllFetched /\ RowsHoldResults))
    /\ (failed_requests # <<>> /\ InBatch) ~> (pc = "csv" /\ AllFetched)

C11_Witness ==
    /\ pc = "exit"
    /\ csv_written
    /\ exit_code = 1
    /\ Len(failed_requests) = 2
    /\ failed_requests[1] = <<2, "en", "Rate limit">>
    /\ failed_requests[2][2] = "ja"
    /\ Len(csv) = 3
    /\ csv[2] = <<"2", "", "", "Aschgrau", "Gris cendre">>

\* a fetch is in progress: fetch_name was called and has not returned
InProgress == pc \in {"pace", "send", "backoff"}

\* the item position and the language of the k-th fetch of a sequential batch
KthItem(k) == ((k - 1) \div 4) + 1
KthLanguage(k) == <<"en", "ja", "de", "fr">>[((k - 1) % 4) + 1]

\* C12: fetch_name is called for the items in load order and, within an
\* item, for en, ja, de, fr in this order; a call is made only when no fetch
\* is in progress, every request belongs to the fetch called last, and when
\* the loop ends each pair was fetched exactly once.
C12_FetchesSequentialInOrder ==
    /\ [](\A k \in 1..Len(fetched) :
              /\ KthItem(k) <= Len(WithItemId)
              /\ fetched[k] = <<KthItem(k), WithItemId[KthItem(k)].itemID,
                                KthLanguage(k)>>)
    /\ [](InProgress => (fetched # <<>> /\
              fetched[Len(fetched)] = <<item_index, CurrentItem, CurrentLang>>))
    /\ [](pc = "csv" => Len(fetched) = 4 * Len(WithItemId))
    /\ [][fetched' # fetched =>
             (~InProgress /\ pc # "ret" /\ fetched' = Append(fetched, fetched'[Len(fetched')]))]_vars
    /\ [][attempts' # attempts =>
             (InProgress /\ fetched' = fetched
                /\ fetched[Len(fetched)] = <<item_index, CurrentItem, CurrentLang>>)]_vars

C12_Witness ==
    /\ pc = "send"
    /\ Len(fetched) = 6
    /\ fetched[4] = <<1, 2, "fr">>
    /\ fetched[5] = <<2, 1, "en">>
    /\ fetched[6] = <<2, 1, "ja">>
    /\ total_requests > 8

\* C13: with a missing file, unparsable JSON or a root that is no array the
\* first step of the process is its exit with code 1: no request is ever
\* sent and no CSV written; and when generate_csv fails the process exits at
\* once with code 1 without the file, also when failed_requests is empty.
C13_FileErrorsFatal ==
    /\ [](src # "ok" =>
            /\ pc \in {"load", "exit"}
            /\ pc = "exit" => exit_code = 1
            /\ total_requests = 0 /\ attempts = 0 /\ fetched = <<>>
            /\ ~csv_written /\ csv = <<>>)
    /\ []((pc = "exit" /\ ~csv_written) => exit_code = 1)
    /\ [][(pc = "csv" /\ ~csv_written') =>
             (pc' = "exit" /\ exit_code' = 1 /\ csv' = <<>>)]_vars

C13_Witness ==
    /\ pc = "exit"
    /\ src = "ok"
    /\ ~csv_written
    /\ exit_code = 1
    /\ failed_requests = <<>>
    /\ successful_requests = 4

\* C14: every name that was not obtained is an empty field of the row: for
\* the source [{"itemID": 1}], with 'Snow White' obtained for en and nothing
\* for ja, de and fr, the file is the header line followed by the line
\* 1,Snow White,,, and in general a row is the itemID followed by the en, ja,
\* de, fr names in this order, None giving the empty string.
C14_MissingNamesRenderEmpty ==
    BatchDone =>
        /\ CsvLine(csv[1]) =
              "itemID,English Name,Japanese Name,German Name,French Name"
        /\ \A k \in 1..Len(dye_data) :
              LET n == dye_data[k].names
                  f(l) == IF n[l] = None THEN "" ELSE n[l]
              IN  csv[k + 1] = <<ToString(dye_data[k].itemID),
                                 f("en"), f("ja"), f("de"), f("fr")>>
        /\ (/\ input = <<[has |-> TRUE, itemID |-> 1]>>
            /\ dye_data[1].names["en"] = "Snow White"
            /\ \A l \in {"ja", "de", "fr"} : dye_data[1].names[l] = None)
           => (Len(csv) = 2 /\ CsvLine(csv[2]) = "1,Snow White,,,")

C14_Witness ==
    /\ BatchDone
    /\ input = <<[has |-> TRUE, itemID |-> 1]>>
    /\ failed_requests = <<<<1, "ja", "Missing Name field">>,
                           <<1, "de", "Missing Name field">>,
                           <<1, "fr", "Not found">>>>
    /\ CsvLine(csv[2]) = "1,Snow White,,,"

\* the backoff waits of a trace, in order
IsBackoff(e) == e.ev = "backoff"
Waits(tr) == SelectSeq(tr, IsBackoff)
\* the number of answers among the first k events of a trace
AnswersBefore(tr, k) == Len(Answers(SubSeq(tr, 1, k)))

\* C15 (as amended): every backoff wait follows a 429 or a 5xx answer and is
\* 2^n, n being the number of earlier attempts of the fetch (timeouts
\* included); the waits of a fetch are strictly increasing; and in a fetch
\* without timeouts the first wait is 1 and each later wait is double the
\* previous one.
C15_BackoffIsPowerOfAttempt ==
    /\ \A k \in 1..Len(trace) :
          IsBackoff(trace[k]) =>
              /\ k > 1
              /\ trace[k - 1].ev = "http"
              /\ (trace[k - 1].status = 429 \/ trace[k - 1].status >= 500)
              /\ trace[k].t = 2 ^ (AnswersBefore(trace, k) - 1)
    /\ \A j \in 1..Len(Waits(trace)) :
          j > 1 => Waits(trace)[j].t > Waits(trace)[j - 1].t
    /\ (\A k \in 1..Len(trace) : ~IsTimeout(trace[k])) =>
          \A j \in 1..Len(Waits(trace)) :
              /\ j = 1 => Waits(trace)[j].t = 1
              /\ j > 1 => Waits(trace)[j].t = 2 * Waits(trace)[j - 1].t

C15_Witness ==
    trace = <<Pace, AnswerTimeout, Pace, Answer429, Backoff(2), Pace,
              Answer503, Backoff(4)>>

\* C15 as stated: the first wait of a fetch is 1 and each later wait is double
\* the previous one, for every mix of 429, 5xx and timeout answers.
C15_BackoffStartsAtOneAndDoubles ==
    \A j \in 1..Len(Waits(trace)) :
        /\ j = 1 => Waits(trace)[j].t = 1
        /\ j > 1 => Waits(trace)[j].t = 2 * Waits(trace)[j - 1].t

\* C16: whatever the endpoint answers, a call of fetch_name from
\* fetch_all_languages makes at most MAX_RETRIES + 1 requests and returns:
\* retry_count is the number of earlier attempts of the fetch whichever of
\* 429, 5xx and timeout caused the retries; the batch never sends more than
\* (MAX_RETRIES + 1) * 4 * n requests for n items and always reaches
\* generate_csv.
C16_FetchAndBatchTerminate ==
    /\ [](/\ Len(Answers(trace)) <= MAX_RETRIES + 1
          /\ retry_count <= MAX_RETRIES
          /\ pc \in {"pace", "send"} => retry_count = Len(Answers(trace))
          /\ pc = "backoff" => retry_count = Len(Answers(trace)) - 1
          /\ Returned => retry_count = Len(Answers(trace)) - 1
          /\ total_requests <= (MAX_RETRIES + 1) * 4 * Len(WithItemId))
    /\ (pc = "load" /\ src = "ok") ~> (pc = "csv")

C16_Witness ==
    /\ Returned
    /\ Answers(trace) = <<Answer429, AnswerTimeout, Answer503, AnswerTimeout>>
    /\ failed_requests[Len(failed_requests)][3] = "Timeout"
    /\ total_requests = start.total + MAX_RETRIES + 1

\* C17: a call of fetch_name that has returned has exactly one recorded
\* outcome: a name with successful_requests one higher and failed_requests
\* as before, or None with exactly one entry for its item and language
\* appended and successful_requests as before; before it returns nothing is
\* recorded. So between fetches successful_requests + len(failed_requests) is
\* the number of calls made, 4 * n when the loop over n items has ended, and a
\* run that reaches the end of main exits with 0 exactly when
\* successful_requests = 4 * n.
C17_OneOutcomePerFetch ==
    /\ Returned =>
          \/ /\ result \notin {None, ""}
             /\ successful_requests = start.ok + 1
             /\ Len(failed_requests) = start.failed
          \/ /\ result = None
             /\ successful_requests = start.ok
             /\ Len(failed_requests) = start.failed + 1
             /\ failed_requests[Len(failed_requests)][1] = CurrentItem
             /\ failed_requests[Len(failed_requests)][2] = CurrentLang
    /\ InProgress =>
          /\ successful_requests = start.ok
          /\ Len(failed_requests) = start.failed
          /\ successful_requests + Len(failed_requests) = Len(fetched) - 1
    /\ ~InProgress => successful_requests + Len(failed_requests) = Len(fetched)
    /\ pc \in {"csv", "summary"} =>
          successful_requests + Len(failed_requests) = 4 * Len(WithItemId)
    /\ (pc = "exit" /\ csv_written) =>
          /\ successful_requests + Len(failed_requests) = 4 * Len(WithItemId)
          /\ exit_code = 0 <=> successful_requests = 4 * Len(WithItemId)

C17_Witness ==
    /\ Returned
    /\ result = None
    /\ start = [total |-> 7, ok |-> 4, failed |-> 1]
    /\ successful_requests = 4
    /\ Len(failed_requests) = 2

\* position of a language code in the order en, ja, de, fr
LanguageRank(l) ==
    CASE l = "en" -> 1 [] l = "ja" -> 2 [] l = "de" -> 3 [] OTHER -> 4

\* C18: failed_requests only grows, by one entry appended at its end at a
\* time, and no entry is ever changed; each entry was appended by one call of
\* fetch_name and carries its item and language; the entries are in the order
\* of their calls, that is by item position in the source and then by
\* language in the order en, ja, de, fr, so no call has two entries.
C18_FailuresAppendOnlyInOrder ==
    /\ [][/\ Len(failed_requests') \in {Len(failed_requests), Len(failed_requests) + 1}
          /\ SubSeq(failed_requests', 1, Len(failed_requests)) = failed_requests]_vars
    /\ [](/\ Len(failed_fetch) = Len(failed_requests)
          /\ \A j \in 1..Len(failed_requests) :
                /\ failed_fetch[j] \in 1..Len(fetched)
                /\ failed_requests[j][1] = fetched[failed_fetch[j]][2]
                /\ failed_requests[j][2] = fetched[failed_fetch[j]][3]
                /\ j > 1 =>
                      LET a == fetched[failed_fetch[j - 1]]
                          b == fetched[failed_fetch[j]]
                      IN  \/ a[1] < b[1]
                          \/ a[1] = b[1] /\ LanguageRank(a[3]) < LanguageRank(b[3]))

C18_Witness ==
    /\ pc = "exit"
    /\ input = <<[has |-> TRUE, itemID |-> 2], [has |-> TRUE, itemID |-> 1]>>
    /\ failed_requests = <<<<2, "de", "Timeout">>, <<1, "en", "Server error 503">>>>
    /\ total_requests = 14

Answer403 == [ev |-> "http", status |-> 403, body |-> "nofields", t |-> 0]

\* C19: a response with a 4xx status other than 404 and 429 ends the fetch
\* at once: it is the last event of the fetch, one entry holding the text of
\* the HTTP error is appended, successful_requests is unchanged and None is
\* returned.
C19_ClientErrorNotRetried ==
    \A k \in 1..Len(trace) :
        (/\ trace[k].ev = "http"
         /\ trace[k].status >= 400 /\ trace[k].status < 500
         /\ trace[k].status \notin {404, 429}) =>
            /\ k = Len(trace)
            /\ Returned
            /\ RecordedOnly(ToString(trace[k].status) \o " Client Error")
            /\ CountedHere

C19_Witness ==
    /\ Returned
    /\ trace = <<Pace, Answer429, Backoff(1), Pace, Answer403>>
    /\ failed_requests[Len(failed_requests)][3] = "403 Client Error"

AnswerEmpty == [ev |-> "http", status |-> 200, body |-> "empty", t |-> 0]

\* C20: fetch_name never returns the empty string: a 2xx response whose Name
\* is empty ends the fetch with one 'Missing Name field' entry and None, as an
\* absent Name does; every entry of the names dicts and of dye_data is a
\* non-empty name or None; and a run in which a response held an empty Name
\* exits with code 1: from that response on failed_requests is non-empty, and
\* no exit with a non-empty failed_requests has another code.
C20_EmptyNameIsFailure ==
    /\ [](/\ \A k \in 1..Len(trace) :
                trace[k] = AnswerEmpty =>
                    /\ k = Len(trace)
                    /\ Returned
                    /\ RecordedOnly("Missing Name field")
          /\ result # ""
          /\ \A l \in DOMAIN names : names[l] # ""
          /\ \A k \in 1..Len(dye_data) : \A l \in DOMAIN dye_data[k].names :
                dye_data[k].names[l] \in {None, SheetName(dye_data[k].itemID, l)}
          /\ (failed_requests # <<>> /\ pc = "exit") => exit_code = 1)
    /\ [][(trace' # trace /\ trace' # <<>> /\ trace'[Len(trace')] = AnswerEmpty)
             => failed_requests' # <<>>]_vars
    /\ [][failed_requests # <<>> => failed_requests' # <<>>]_vars

C20_Witness ==
    /\ Returned
    /\ trace = <<Pace, AnswerTimeout, Pace, AnswerEmpty>>
    /\ result = None
    /\ failed_requests = <<<<1, "de", "Missing Name field">>>>

====
